---- MODULE Spec2Model ----
(***************************************************************************)
(* Model of main.py: the WeatherToSnowflake ETL job.  One run of main():   *)
(* construct the object, geocode every city, fetch the weather of every    *)
(* geocoded city, (no-op) transform, append to the warehouse table,        *)
(* dispose of the engine.  An uncaught Python exception ends the run in    *)
(* pc = "aborted".                                                         *)
(***************************************************************************)
EXTENDS Integers, Sequences, FiniteSets, TLC

\* Longest city list handed to the constructor.
MaxCities == 3

\* The cities of main() and one more name a caller may pass; a list holds each
\* name at most once, as main's does.
CityNames == {"Montreal", "New York", "Chicago", "Nowhere123"}

----------------------------------------------------------------------------
(* JSON and HTTP responses                                                 *)

\* A response body: text that is not JSON at all (the empty body), or a JSON
\* array (a sequence) or a JSON object (a record; <<>> is the object {}).
EmptyBody == [parses |-> FALSE, isArray |-> FALSE, value |-> <<>>]

ArrayBody(v) == [parses |-> TRUE, isArray |-> TRUE, value |-> v]

ObjectBody(v) == [parses |-> TRUE, isArray |-> FALSE, value |-> v]

GeoResult1 == [country |-> "CA", state |-> "Quebec", lat |-> 45, lon |-> -73]

GeoResult2 == [country |-> "US", state |-> "Illinois", lat |-> 41, lon |-> -87]

\* The geocoder leaves "state" out for places that have none.
GeoResultNoState == [country |-> "SG", lat |-> 1, lon |-> 103]

ErrorObject == [cod |-> 404, message |-> "not found"]

WeatherResult1 == [dt |-> 1700000000, main |-> [temp |-> 280, temp_max |-> 283, temp_min |-> 277]]

WeatherResult2 == [dt |-> 951782399, main |-> [temp |-> 295, temp_max |-> 295, temp_min |-> 290]]

WeatherResultNoDt == [main |-> [temp |-> 280, temp_max |-> 283, temp_min |-> 277]]

Response(status, body) == [status_code |-> status, body |-> body]

\* What requests.get(geo_url) can return.
GeoResponses ==
    << Response(200, ArrayBody(<<GeoResult1>>)),
       Response(200, ArrayBody(<<GeoResult2>>)),
       Response(200, ArrayBody(<<GeoResultNoState>>)),
       Response(200, ArrayBody(<<>>)),
       Response(200, ObjectBody(ErrorObject)),
       Response(200, EmptyBody),
       Response(404, EmptyBody) >>

\* What requests.get(weather_url) can return.
WeatherResponses ==
    << Response(200, ObjectBody(WeatherResult1)),
       Response(200, ObjectBody(WeatherResult2)),
       Response(200, ObjectBody(WeatherResultNoDt)),
       Response(200, ObjectBody(<<>>)),
       Response(200, EmptyBody),
       Response(404, ObjectBody(ErrorObject)) >>

\* No response received yet (history variables only).
NoResponse == Response(0, EmptyBody)

\* resp.json() raises JSONDecodeError when the body is not JSON.
JsonRaises(resp) == ~resp.body.parses

\* resp.json()
Json(resp) == resp.body.value

\* Python truthiness of a JSON array or object: non-empty.
Truthy(v) == DOMAIN v /= {}

\* resp.json() is an array (indexable by 0), as opposed to an object.
IsArray(resp) == resp.body.isArray

HasKeys(obj, keys) == keys \subseteq DOMAIN obj

----------------------------------------------------------------------------
(* datetime.utcfromtimestamp(dt).strftime('%Y-%m-%d %H:%M:%S')             *)

Digits == <<"0", "1", "2", "3", "4", "5", "6", "7", "8", "9">>

Pad2(n) == <<Digits[((n \div 10) % 10) + 1], Digits[(n % 10) + 1]>>

Pad4(n) == Pad2(n \div 100) \o Pad2(n % 100)

\* Proleptic Gregorian date of a day count since 1970-01-01 (days >= 0).
CivilFromDays(days) ==
    LET z   == days + 719468
        era == z \div 146097
        doe == z - era * 146097
        yoe == (doe - doe \div 1460 + doe \div 36524 - doe \div 146096) \div 365
        doy == doe - (365 * yoe + yoe \div 4 - yoe \div 100)
        mp  == (5 * doy + 2) \div 153
        d   == doy - (153 * mp + 2) \div 5 + 1
        m   == IF mp < 10 THEN mp + 3 ELSE mp - 9
        y   == yoe + era * 400 + (IF m <= 2 THEN 1 ELSE 0)
    IN  [year |-> y, month |-> m, day |-> d]

\* The 19 characters "YYYY-MM-DD HH:MM:SS" of a Unix time, in UTC.
FormatUtc(dt) ==
    LET date == CivilFromDays(dt \div 86400)
        secs == dt % 86400
    IN  Pad4(date.year) \o <<"-">> \o Pad2(date.month) \o <<"-">> \o Pad2(date.day)
        \o <<" ">> \o Pad2(secs \div 3600) \o <<":">> \o Pad2((secs % 3600) \div 60)
        \o <<":">> \o Pad2(secs % 60)

----------------------------------------------------------------------------
(* State                                                                   *)

VARIABLES
    pc,               \* position of the run in main() / __call__
    cities,           \* self.cities
    _errors,          \* self._errors
    data,             \* self.data
    geocode_cities,   \* local of get_weather_data
    weather,          \* local of get_weather_data
    gi,               \* index of the next city of the geocoding loop
    wi,               \* index of the next entry of the weather loop
    engine,           \* calls made on self.snowflake_engine, in order
    table,            \* rows of the TEMPERATURES table
    stages,           \* stages entered, in order (the logger.info lines)
    requests,         \* HTTP requests issued, in order
    geoResp,          \* history: geocoder response received per city
    weatherResp,      \* history: weather response received per city
    exc               \* the uncaught exception, if any

vars == <<pc, cities, _errors, data, geocode_cities, weather, gi, wi, engine,
          table, stages, requests, geoResp, weatherResp, exc>>

None == [frame |-> FALSE, rows |-> <<>>]

\* pd.DataFrame(weather)
DataFrame(rows) == [frame |-> TRUE, rows |-> rows]

NoException == [type |-> "none", stage |-> "none", city |-> "none"]

Exception(type, stage, city) == [type |-> type, stage |-> stage, city |-> city]

RECURSIVE ListsOver(_, _)
\* Lists of length <= n of pairwise distinct elements of S.
ListsOver(S, n) ==
    IF n = 0 THEN {<<>>}
    ELSE LET shorter == ListsOver(S, n - 1)
         IN  shorter \cup
             { Append(l, c) : <<l, c>> \in
                 { p \in shorter \X S :
                     Len(p[1]) = n - 1 /\ \A i \in 1..Len(p[1]) : p[1][i] /= p[2] } }

\* The cities argument of the constructor when it is a list ...
ListArguments ==
    { [isList |-> TRUE, value |-> l] : l \in ListsOver(CityNames, MaxCities) }

\* ... and when it is one bare name.
NameArguments == { [isList |-> FALSE, value |-> c] : c \in CityNames }

\* if not isinstance(cities, list): cities = [cities]
AsList(arg) == IF arg.isList THEN arg.value ELSE <<arg.value>>

\* WeatherToSnowflake.__init__, called from main() with a fresh engine.
Init ==
    /\ \/ \E arg \in ListArguments : cities = AsList(arg)
       \/ \E arg \in NameArguments : cities = AsList(arg)
    /\ _errors = <<>>
    /\ data = None
    /\ geocode_cities = <<>>
    /\ weather = <<>>
    /\ gi = 1
    /\ wi = 1
    /\ engine = <<>>
    /\ table = <<>>
    /\ stages = <<>>
    /\ requests = <<>>
    /\ geoResp = [c \in CityNames |-> NoResponse]
    /\ weatherResp = [c \in CityNames |-> NoResponse]
    /\ exc = NoException
    /\ pc = "call"

----------------------------------------------------------------------------
(* Operations                                                              *)

\* self._errors.append([obj, stage, msg]): stage and subject swapped.
log_error_swapped(errors, stage, obj, msg) == Append(errors, <<obj, stage, msg>>)

\* self._errors = [[stage, obj, msg]]: assignment in place of append.
log_error_overwrites(errors, stage, obj, msg) == << <<stage, obj, msg>> >>

\* self._errors.append([stage, obj, msg])
log_error(errors, stage, obj, msg) == Append(errors, <<stage, obj, msg>>)

\* f'Status Code: {resp.status_code}. Could not geolocate.'
GeoMessage(resp) == <<"Status Code: ", resp.status_code, ". Could not geolocate.">>

\* f'Status Code: {resp.status_code}. Could not get weather.'
WeatherMessage(resp) == <<"Status Code: ", resp.status_code, ". Could not get weather.">>

\* base_geocoder_url.format(city=city, ...)
geo_url(city) == [api |-> "geo", q |-> city]

\* format(lat=city_details['lon'], lon=city_details['lat'], ...): swapped.
weather_url_swapped(city_details) ==
    [api |-> "weather", lat |-> city_details.lon, lon |-> city_details.lat]

\* base_weather_url.format(lat=..., lon=..., ...)
weather_url(city_details) ==
    [api |-> "weather", lat |-> city_details.lat, lon |-> city_details.lon]

\* resp.status_code == 200 and resp.json(), once resp.json() is known not to raise
IsSuccess(resp) == resp.status_code = 200 /\ Truthy(Json(resp))

\* The condition evaluates resp.json() only when the status is 200.
ConditionRaises(resp) == resp.status_code = 200 /\ JsonRaises(resp)

\* geocode_cities.append({...})
GeocodeEntry(city, geo_resp) ==
    [country |-> geo_resp.country, state |-> geo_resp.state, city |-> city,
     lat |-> geo_resp.lat, lon |-> geo_resp.lon]

\* 'CITY': city_details['state'] in place of city_details['city'].
WeatherRowWrongCity(city_details, weather_resp) ==
    [DATETIME  |-> FormatUtc(weather_resp.dt),
     TEMP      |-> weather_resp.main.temp,
     TEMP_HIGH |-> weather_resp.main.temp_max,
     TEMP_LOW  |-> weather_resp.main.temp_min,
     COUNTRY   |-> city_details.country,
     CITY      |-> city_details.state,
     LAT       |-> city_details.lat,
     LON       |-> city_details.lon]
    @@ ("STATE" :> city_details.state)

\* weather.append({...})
WeatherRow(city_details, weather_resp) ==
    [DATETIME  |-> FormatUtc(weather_resp.dt),
     TEMP      |-> weather_resp.main.temp,
     TEMP_HIGH |-> weather_resp.main.temp_max,
     TEMP_LOW  |-> weather_resp.main.temp_min,
     COUNTRY   |-> city_details.country,
     CITY      |-> city_details.city,
     LAT       |-> city_details.lat,
     LON       |-> city_details.lon]
    @@ ("STATE" :> city_details.state)

\* An uncaught exception leaves every stage that follows unrun.
Abort(type, stage, city) ==
    /\ exc' = Exception(type, stage, city)
    /\ pc' = "aborted"

\* __call__: 'Extracting...', then get_weather_data starts.
Extract ==
    /\ pc = "call"
    /\ stages' = Append(stages, "extract")
    /\ geocode_cities' = <<>>
    /\ gi' = 1
    /\ pc' = "geocoding"
    /\ UNCHANGED <<cities, _errors, data, weather, wi, engine, table, requests,
                   geoResp, weatherResp, exc>>

\* One iteration of "for city in self.cities".
GeocodeCity ==
    /\ pc = "geocoding"
    /\ gi <= Len(cities)
    /\ LET city == cities[gi] IN
       \E k \in DOMAIN GeoResponses :
         LET resp == GeoResponses[k] IN
         /\ requests' = Append(requests, geo_url(city))
         /\ geoResp' = [geoResp EXCEPT ![city] = resp]
         /\ IF ConditionRaises(resp)
            THEN /\ Abort("JSONDecodeError", "extract", city)
                 /\ UNCHANGED <<geocode_cities, _errors, gi>>
            ELSE IF IsSuccess(resp)
            THEN IF ~IsArray(resp)
                 THEN /\ Abort("KeyError", "extract", city)
                      /\ UNCHANGED <<geocode_cities, _errors, gi>>
                 ELSE LET geo_resp == Json(resp)[1] IN
                      IF ~HasKeys(geo_resp, {"country", "state", "lat", "lon"})
                      THEN /\ Abort("KeyError", "extract", city)
                           /\ UNCHANGED <<geocode_cities, _errors, gi>>
                      ELSE /\ geocode_cities' =
                                Append(geocode_cities, GeocodeEntry(city, geo_resp))
                           /\ gi' = gi + 1
                           /\ UNCHANGED <<_errors, pc, exc>>
            ELSE /\ _errors' = log_error(_errors, "Extract", city, GeoMessage(resp))
                 /\ gi' = gi + 1
                 /\ UNCHANGED <<geocode_cities, pc, exc>>
    /\ UNCHANGED <<cities, data, weather, wi, engine, table, stages, weatherResp>>

\* for city_details in geocode_cities[1:]: the first geocoded city is skipped.
StartWeatherSkipsFirst ==
    /\ pc = "geocoding"
    /\ gi > Len(cities)
    /\ weather' = <<>>
    /\ wi' = 2
    /\ pc' = "fetching"
    /\ UNCHANGED <<cities, _errors, data, geocode_cities, gi, engine, table,
                   stages, requests, geoResp, weatherResp, exc>>

\* The geocoding loop is exhausted: weather = [] and the second loop starts.
StartWeather ==
    /\ pc = "geocoding"
    /\ gi > Len(cities)
    /\ weather' = <<>>
    /\ wi' = 1
    /\ pc' = "fetching"
    /\ UNCHANGED <<cities, _errors, data, geocode_cities, gi, engine, table,
                   stages, requests, geoResp, weatherResp, exc>>

\* One iteration of "for city_details in geocode_cities".
FetchWeather ==
    /\ pc = "fetching"
    /\ wi <= Len(geocode_cities)
    /\ LET city_details == geocode_cities[wi] IN
       \E k \in DOMAIN WeatherResponses :
         LET resp == WeatherResponses[k] IN
         /\ requests' = Append(requests, weather_url(city_details))
         /\ weatherResp' = [weatherResp EXCEPT ![city_details.city] = resp]
         /\ IF ConditionRaises(resp)
            THEN /\ Abort("JSONDecodeError", "extract", city_details.city)
                 /\ UNCHANGED <<weather, _errors, wi>>
            ELSE IF IsSuccess(resp)
            THEN LET weather_resp == Json(resp) IN
                 IF ~HasKeys(weather_resp, {"dt", "main"})
                 THEN /\ Abort("KeyError", "extract", city_details.city)
                      /\ UNCHANGED <<weather, _errors, wi>>
                 ELSE /\ weather' = Append(weather, WeatherRow(city_details, weather_resp))
                      /\ wi' = wi + 1
                      /\ UNCHANGED <<_errors, pc, exc>>
            ELSE /\ _errors' = log_error(_errors, "Extract", city_details.city,
                                         WeatherMessage(resp))
                 /\ wi' = wi + 1
                 /\ UNCHANGED <<weather, pc, exc>>
    /\ UNCHANGED <<cities, data, geocode_cities, gi, engine, table, stages, geoResp>>

\* A run that found nothing goes straight to teardown.
FinishExtractSkipsEmptyLoad ==
    /\ pc = "fetching"
    /\ wi > Len(geocode_cities)
    /\ data' = DataFrame(weather)
    /\ pc' = IF weather = <<>> THEN "teardown" ELSE "transform"
    /\ UNCHANGED <<cities, _errors, geocode_cities, weather, gi, wi, engine, table,
                   stages, requests, geoResp, weatherResp, exc>>

\* self.data = pd.DataFrame(weather); get_weather_data returns.
FinishExtract ==
    /\ pc = "fetching"
    /\ wi > Len(geocode_cities)
    /\ data' = DataFrame(weather)
    /\ pc' = "transform"
    /\ UNCHANGED <<cities, _errors, geocode_cities, weather, gi, wi, engine, table,
                   stages, requests, geoResp, weatherResp, exc>>

\* 'Transforming...', then transform(): pass.
Transform ==
    /\ pc = "transform"
    /\ stages' = Append(stages, "transform")
    /\ pc' = "load"
    /\ UNCHANGED <<cities, _errors, data, geocode_cities, weather, gi, wi, engine,
                   table, requests, geoResp, weatherResp, exc>>

\* 'Loading...', then load_df_to_sf: to_sql appends the rows or raises.
Load ==
    /\ pc = "load"
    /\ stages' = Append(stages, "load")
    /\ engine' = Append(engine, "to_sql")
    /\ \E written \in BOOLEAN :
         IF written
         THEN /\ table' = table \o data.rows
              /\ pc' = "teardown"
              /\ UNCHANGED exc
         ELSE /\ Abort("DatabaseError", "load", "none")
              /\ UNCHANGED table
    /\ UNCHANGED <<cities, _errors, data, geocode_cities, weather, gi, wi, requests,
                   geoResp, weatherResp>>

\* dispose() called twice.
close_connection_twice(calls) == calls \o <<"dispose", "dispose">>

\* self.snowflake_engine.dispose()
close_connection(calls) == Append(calls, "dispose")

\* 'Disposing of Snowflake Engine', close_connection, and main logs 'Done!'.
Teardown ==
    /\ pc = "teardown"
    /\ stages' = Append(stages, "teardown")
    /\ engine' = close_connection(engine)
    /\ pc' = "done"
    /\ UNCHANGED <<cities, _errors, data, geocode_cities, weather, gi, wi, table,
                   requests, geoResp, weatherResp, exc>>

Next ==
    \/ Extract
    \/ GeocodeCity
    \/ StartWeather
    \/ FetchWeather
    \/ FinishExtract
    \/ Transform
    \/ Load
    \/ Teardown

Spec == Init /\ [][Next]_vars

----------------------------------------------------------------------------
(* Properties                                                              *)

TypeOK ==
    /\ pc \in {"call", "geocoding", "fetching", "transform", "load", "teardown",
               "done", "aborted"}
    /\ Len(cities) <= MaxCities
    /\ gi \in 1..(Len(cities) + 1)
    /\ wi \in 1..(Len(geocode_cities) + 1)

FormatExample == FormatUtc(1700000000) =
    <<"2","0","2","3","-","1","1","-","1","4"," ","2","2",":","1","3",":","2","0">>

Range(seq) == { seq[i] : i \in DOMAIN seq }

IsPrefix(s, t) == Len(s) <= Len(t) /\ \A i \in 1..Len(s) : s[i] = t[i]

Received(resp) == resp.status_code /= 0

\* HTTP 200 with a non-empty JSON body.
NonEmptyJson200(resp) ==
    resp.status_code = 200 /\ resp.body.parses /\ DOMAIN resp.body.value /= {}

GeocodeSucceeded(city) == NonEmptyJson200(geoResp[city])

WeatherSucceeded(city) == NonEmptyJson200(weatherResp[city])

BothSucceeded(city) == GeocodeSucceeded(city) /\ WeatherSucceeded(city)

\* Positions of the error records whose subject is the city.
ErrorsFor(city) == { i \in DOMAIN _errors : _errors[i][2] = city }

\* Positions of the city's rows in the rows collected by the weather loop.
RowsFor(city) == { i \in DOMAIN weather : weather[i].CITY = city }

\* Positions of the city's rows in the result set.
ResultRowsFor(city) == { i \in DOMAIN data.rows : data.rows[i].CITY = city }

ExtractCompleted == data.frame

LoadEntered == "load" \in Range(stages)

Terminated == pc \in {"done", "aborted"}

StageOrder == <<"extract", "transform", "load", "teardown">>

\* C1: the result set handed to the load stage holds exactly one row per
\* city whose geocode and weather fetch both succeeded, no other row, in the
\* order of the input list; each row carries that city's own geocode data.
C1_ResultSetIsSuccessesInOrder ==
    (pc = "load" \/ LoadEntered) =>
        LET good == SelectSeq(cities, BothSucceeded) IN
        /\ Len(data.rows) = Len(good)
        /\ \A i \in 1..Len(good) :
             /\ data.rows[i].CITY = good[i]
             /\ data.rows[i].LAT = geoResp[good[i]].body.value[1].lat
             /\ data.rows[i].TEMP = weatherResp[good[i]].body.value.main.temp

\* Three cities, the middle one failed, the outer two were loaded in order.
C1_Witness ==
    /\ pc = "done"
    /\ Len(cities) = 3
    /\ ~BothSucceeded(cities[2])
    /\ Len(table) = 2
    /\ table[1].CITY = cities[1]
    /\ table[2].CITY = cities[3]

\* The geocode request of the city failed as C2 says: a status other than
\* 200, or status 200 with an empty array.
GeocodeFailed(city) ==
    /\ Received(geoResp[city])
    /\ \/ geoResp[city].status_code /= 200
       \/ /\ geoResp[city].body.parses
          /\ geoResp[city].body.isArray
          /\ Len(geoResp[city].body.value) = 0

\* C2: a city whose geocode request failed has exactly one error record,
\* tagged "Extract"; no weather request is ever issued for it and it has no
\* row, neither in the weather loop nor in the result set.
C2_GeocodeFailureRecordedAndDropped ==
    \A city \in CityNames :
        GeocodeFailed(city) =>
            /\ Cardinality(ErrorsFor(city)) = 1
            /\ \A i \in ErrorsFor(city) : _errors[i][1] = "Extract"
            /\ ~Received(weatherResp[city])
            /\ \A i \in DOMAIN geocode_cities : geocode_cities[i].city /= city
            /\ RowsFor(city) = {}
            /\ ResultRowsFor(city) = {}

\* A run that finished with a city that failed geocoding (HTTP 200, empty
\* array) next to one that was loaded.
C2_Witness ==
    /\ pc = "done"
    /\ Len(table) >= 1
    /\ \E city \in Range(cities) :
         GeocodeFailed(city) /\ geoResp[city].status_code = 200

\* The weather request of a geocoded city failed: anything but HTTP 200 with
\* a non-empty JSON body.
WeatherFailed(city) ==
    /\ GeocodeSucceeded(city)
    /\ Received(weatherResp[city])
    /\ ~NonEmptyJson200(weatherResp[city])

\* C3 as stated: a geocoded city whose weather request failed has exactly
\* one error record and no row, and the other cities are unaffected: their
\* rows and errors follow from their own responses, and the failure does not
\* keep any other geocoded city from being fetched.
C3_WeatherFailureIsolated ==
    \A city \in CityNames :
        WeatherFailed(city) =>
            /\ Cardinality(ErrorsFor(city)) = 1
            /\ RowsFor(city) = {}
            /\ \A other \in CityNames \ {city} :
                 /\ RowsFor(other) /= {} => BothSucceeded(other)
                 /\ ErrorsFor(other) /= {} =>
                        ~GeocodeSucceeded(other) \/ ~WeatherSucceeded(other)
            /\ (Terminated /\ exc.city \in {"none", city}) =>
                 \A i \in DOMAIN geocode_cities :
                     Received(weatherResp[geocode_cities[i].city])

\* C4: the stages entered are always a prefix of extract, transform, load,
\* teardown (fixed order, each at most once); once extract has returned the
\* run goes on to transform and then enters load, whatever the error count.
C4_StagesInFixedOrder ==
    /\ [](IsPrefix(stages, StageOrder))
    /\ [][/\ (pc = "transform" => pc' = "load" /\ stages' = <<"extract", "transform">>)
          /\ (pc = "load" => stages' = <<"extract", "transform", "load">>)
          /\ (pc = "fetching" /\ data'.frame => pc' = "transform")]_vars

\* Every city failed, and load was still entered and ran on no rows.
C4_Witness ==
    /\ pc = "done"
    /\ Len(cities) >= 2
    /\ Len(_errors) = Len(cities)
    /\ data.rows = <<>>
    /\ stages = StageOrder

Disposals == Cardinality({ i \in DOMAIN engine : engine[i] = "dispose" })

\* C5 as stated: a run that entered the load stage and has ended, whether
\* the write succeeded or raised, has disposed of the connection.
C5_DisposedEvenOnLoadFailure ==
    (Terminated /\ LoadEntered) => Disposals >= 1

\* C6: a run that reached its end disposed of the connection exactly once;
\* dispose is only called once the load stage has finished, and the
\* connection is never used after it was disposed.
C6_DisposedExactlyOnceAtEnd ==
    /\ pc = "done" => Disposals = 1
    /\ Disposals <= 1
    /\ Disposals >= 1 =>
         /\ LoadEntered
         /\ exc.stage /= "load"
         /\ Len(table) = Len(data.rows)
         /\ \E i \in DOMAIN engine : engine[i] = "to_sql"
    /\ \A i, j \in DOMAIN engine :
         engine[i] = "dispose" /\ i < j => engine[j] /= "to_sql"

\* The run reached its end after a successful write.
C6_Witness ==
    /\ pc = "done"
    /\ engine = <<"to_sql", "dispose">>
    /\ Len(table) >= 1

\* A per-city failure as C7 lists them: a status other than 200, status 200
\* with an empty body, or status 200 with an empty array (or empty object).
PerCityFailure(resp) ==
    /\ Received(resp)
    /\ \/ resp.status_code /= 200
       \/ ~resp.body.parses
       \/ DOMAIN resp.body.value = {}

\* C7 as stated: whatever a request returns, the failure is recorded in the
\* error list and does not abort the run.
C7_PerCityFailureNeverAborts ==
    \A city \in CityNames :
        (PerCityFailure(geoResp[city]) \/ PerCityFailure(weatherResp[city])) =>
            /\ Cardinality(ErrorsFor(city)) = 1
            /\ exc.city /= city

\* C8: the error list only grows at its end: across every step the old list
\* is a prefix of the new one.
C8_ErrorsAppendOnly == [][IsPrefix(_errors, _errors')]_vars

\* A finished run with two error records, the first from the geocoding loop
\* and the second from the weather loop.
C8_Witness ==
    /\ pc = "done"
    /\ Len(_errors) = 2
    /\ GeocodeFailed(_errors[1][2])
    /\ WeatherFailed(_errors[2][2])

IsGeoRequest(request) == request.api = "geo"

IsWeatherRequest(request) == request.api = "weather"

\* The weather request the geocoder's answer for the city calls for.
ExpectedWeatherRequest(city) ==
    [api |-> "weather",
     lat |-> geoResp[city].body.value[1].lat,
     lon |-> geoResp[city].body.value[1].lon]

\* C9: the requests are the geocode requests of the input cities, in input
\* order, followed by the weather requests of the geocoded cities, in input
\* order; no weather request precedes the last geocode request; a completed
\* extract has issued all of them, each once.
C9_RequestTrace ==
    LET geo == SelectSeq(requests, IsGeoRequest)
        wth == SelectSeq(requests, IsWeatherRequest)
        geocoded == SelectSeq(cities, GeocodeSucceeded)
    IN  /\ Len(requests) = Len(geo) + Len(wth)
        /\ \A i \in 1..Len(geo) : IsGeoRequest(requests[i])
        /\ Len(geo) <= Len(cities)
        /\ \A i \in 1..Len(geo) : geo[i].q = cities[i]
        /\ wth /= <<>> => Len(geo) = Len(cities)
        /\ Len(wth) <= Len(geocoded)
        /\ \A i \in 1..Len(wth) : wth[i] = ExpectedWeatherRequest(geocoded[i])
        /\ ExtractCompleted =>
             Len(geo) = Len(cities) /\ Len(wth) = Len(geocoded)

\* Three geocode requests, then the weather requests of the two cities that
\* were geocoded.
C9_Witness ==
    /\ ExtractCompleted
    /\ Len(requests) = 5
    /\ IsGeoRequest(requests[3])
    /\ IsWeatherRequest(requests[4])
    /\ \E i \in DOMAIN cities : GeocodeFailed(cities[i])

\* C10: once extract has completed, every input city has either one row or
\* one error record, never both and never neither, so rows plus errors
\* count the input cities.
C10_RowsPlusErrorsCountCities ==
    ExtractCompleted =>
        /\ Len(data.rows) + Len(_errors) = Len(cities)
        /\ \A i \in DOMAIN cities :
             Cardinality(ResultRowsFor(cities[i])) + Cardinality(ErrorsFor(cities[i])) = 1

\* Extract completed on three cities: one row, one geocoding error, one
\* weather error.
C10_Witness ==
    /\ pc = "transform"
    /\ Len(cities) = 3
    /\ Len(data.rows) = 1
    /\ \E a, b \in Range(cities) : GeocodeFailed(a) /\ WeatherFailed(b)

====
